---- MODULE Spec2Model ----
(***************************************************************************)
(* interval-pool: IntervalPool (period -> IntervalBucket map) and          *)
(* IntervalBucket (subscription set, one interval of the injected timer    *)
(* capability, per-tick fan-out).                                          *)
(*                                                                         *)
(* Objects are modelled by their index in the sequence of objects created  *)
(* so far: subscriptions in subs, buckets in bucketObjs, intervals of the  *)
(* timer capability in timers. The capability numbers its handles from     *)
(* firstHandle on, so a capability that counts from 0 hands out the falsy  *)
(* handle 0 for its first interval.                                        *)
(***************************************************************************)
EXTENDS Naturals, Sequences, FiniteSets

\* ---------------------------------------------------------------- bounds
MaxSubs == 3        \* subscription objects created in one behaviour
MaxDelay == 2       \* periods are 1..MaxDelay
NumCallbacks == 1   \* distinct callback values handed to run/once
MaxSessions == 1    \* generator objects returned by iterate()
MaxTicks == 3       \* ticks that reach one iteration session
MaxPulls == 4       \* next() calls on one iteration session
MaxPair == 2        \* generator objects where sessions run side by side
MaxBuckets == 1     \* buckets constructed directly, outside any pool
MaxEntries == 3     \* entries (deleted ones included) of a directly used bucket's Set
MaxNotified == 2    \* calls of the onEmpty function of a directly used bucket

Delays == 1..MaxDelay
Callbacks == 1..NumCallbacks
SubIds == 1..MaxSubs

\* ------------------------------------------------------------ JS values
Undefined == 0      \* `undefined` in #intervalId and in Map.get's result
Empty == 0          \* a deleted entry of a Set's entry list

VARIABLES
  subs,        \* subscription objects created so far: [delay, once, callback]
  bucketObjs,  \* IntervalBucket objects created so far
  buckets,     \* IntervalPool.#buckets : delay -> bucket index, or Undefined
  timers,      \* intervals handed out by CustomInterval.set: [bucket, handle, cancels]
  firstHandle, \* the handle value the capability returns for its first interval
  tick,        \* the running #handleIntervalTick: bucket, forEach cursor, current subscription
  tickLog,     \* history of the running (or the latest) tick, see NewLog
  invoked,     \* subscriptions whose callback was invoked at least once
  live,        \* reference: subscriptions registered and not yet removed
  lastOp,      \* the latest operation: [op, sub, err], err = an exception left it
  peerBuckets,    \* #buckets of a second IntervalPool built on the same capability
  peerSubs,       \* the subscriptions whose unsubscribe function belongs to the second pool
  peerBucketObjs, \* the buckets the second pool constructed (their onEmpty is its #onEmptyBucket)
  sessions     \* the generator objects that iterate() returned

vars == <<subs, bucketObjs, buckets, timers, firstHandle, tick, tickLog, invoked, live, lastOp,
          peerBuckets, peerSubs, peerBucketObjs, sessions>>

\* The mutable heap that bucket and pool methods work on.
World == [bucketObjs |-> bucketObjs, buckets |-> buckets, timers |-> timers, err |-> FALSE]

\* The heap as the second pool sees it: its own map, the same capability.
PeerWorld == [bucketObjs |-> bucketObjs, buckets |-> peerBuckets, timers |-> timers, err |-> FALSE]

Pools == {1, 2}

\* mutant: the map is a static field, shared by every pool
WorldOfShared(p) == World

WorldOf(p) == IF p = 1 THEN World ELSE PeerWorld

\* the pool whose closure the unsubscribe function of subscription s is
PoolOfSub(s) == IF s \in peerSubs THEN 2 ELSE 1

\* the pool whose #onEmptyBucket bucket b was constructed with
PoolOfBucket(b) == IF b \in peerBucketObjs THEN 2 ELSE 1

Throw(w) == [w EXCEPT !.err = TRUE]

\* --------------------------------------------------- Set<IntervalSubscription>
\* ECMAScript keeps a Set as a list of entries in insertion order; delete and
\* clear blank entries, add appends, forEach walks the list by index.
SetHas(entries, s) == \E i \in 1..Len(entries) : entries[i] = s

\* mutant: a set keyed by the callback value instead of the subscription object
SetAddByCallback(entries, s) ==
  IF \E i \in 1..Len(entries) :
       entries[i] # Empty /\ subs'[entries[i]].callback = subs'[s].callback
  THEN entries
  ELSE Append(entries, s)

\* mutant: entries are put in front (last registered fires first)
SetAddFront(entries, s) == IF SetHas(entries, s) THEN entries ELSE <<s>> \o entries

SetAdd(entries, s) == IF SetHas(entries, s) THEN entries ELSE Append(entries, s)

\* mutant: delete by callback value, which also takes other subscriptions
SetDeleteByCallback(entries, s) ==
  [i \in 1..Len(entries) |->
     IF entries[i] # Empty /\ subs[entries[i]].callback = subs[s].callback
     THEN Empty ELSE entries[i]]

\* mutant: delete leaves the entry where it is
SetDeleteKeeps(entries, s) == entries

SetDelete(entries, s) ==
  [i \in 1..Len(entries) |-> IF entries[i] = s THEN Empty ELSE entries[i]]

SetClear(entries) == [i \in 1..Len(entries) |-> Empty]

SetElems(entries) == {entries[i] : i \in 1..Len(entries)} \ {Empty}

SetSize(entries) == Cardinality(SetElems(entries))

\* index of the first live entry after cursor, 0 when forEach is done
ForEachNext(entries, cursor) ==
  LET later == {i \in 1..Len(entries) : i > cursor /\ entries[i] # Empty}
  IN IF later = {} THEN 0 ELSE CHOOSE i \in later : \A j \in later : i <= j

\* JavaScript truthiness of a bucket's #intervalId (a reference to an interval,
\* whose handle value is a number)
Truthy(w, id) == id # Undefined /\ w.timers[id].handle # 0

\* ------------------------------------------------------------ IntervalBucket
\* mock = the onEmpty function given to the constructor is not the pool's
\* #onEmptyBucket but a function that only records its calls (notified)
NewBucket(delay) ==
  [delay |-> delay, subscriptions |-> <<>>, intervalId |-> Undefined,
   disposed |-> FALSE, onEmpty |-> TRUE, mock |-> FALSE, notified |-> 0]

NewMockBucket(delay) == [NewBucket(delay) EXCEPT !.mock = TRUE]

BucketStop(w, b) ==
  LET bk == w.bucketObjs[b] IN
  IF bk.disposed THEN Throw(w)
  ELSE IF Truthy(w, bk.intervalId)
       THEN [w EXCEPT !.timers[bk.intervalId].cancels = @ + 1,
                      !.bucketObjs[b].intervalId = Undefined]
       ELSE w

BucketDispose(w, b) ==
  IF w.bucketObjs[b].disposed THEN w
  ELSE LET w1 == [w EXCEPT !.bucketObjs[b].subscriptions = SetClear(@)]
           w2 == BucketStop(w1, b)
       IN [w2 EXCEPT !.bucketObjs[b].onEmpty = FALSE,
                     !.bucketObjs[b].disposed = TRUE]

\* mutant: the emptied bucket is disposed but stays in the map
OnEmptyBucketKeepsKey(w, b) == BucketDispose(w, b)

\* IntervalPool.#onEmptyBucket, the onEmpty callback of every bucket of the pool
OnEmptyBucket(w, b) ==
  LET w1 == BucketDispose(w, b)
  IN [w1 EXCEPT !.buckets[w1.bucketObjs[b].delay] = Undefined]

\* this.#onEmpty(this)
NotifyEmpty(w, b) ==
  IF w.bucketObjs[b].mock
  THEN [w EXCEPT !.bucketObjs[b].notified = @ + 1]
  ELSE OnEmptyBucket(w, b)

\* mutant: the emptiness test comes before the delete, so removing the last
\* subscription neither stops the interval nor notifies the pool
BucketRemoveChecksFirst(w, b, s) ==
  IF w.bucketObjs[b].disposed THEN Throw(w)
  ELSE LET w1 == [w EXCEPT !.bucketObjs[b].subscriptions = SetDelete(@, s)]
       IN IF SetSize(w.bucketObjs[b].subscriptions) = 0
          THEN LET w2 == BucketStop(w1, b)
               IN IF w2.bucketObjs[b].onEmpty THEN NotifyEmpty(w2, b) ELSE w2
          ELSE w1

BucketRemove(w, b, s) ==
  IF w.bucketObjs[b].disposed THEN Throw(w)
  ELSE LET w1 == [w EXCEPT !.bucketObjs[b].subscriptions = SetDelete(@, s)]
       IN IF SetSize(w1.bucketObjs[b].subscriptions) = 0
          THEN LET w2 == BucketStop(w1, b)
               IN IF w2.bucketObjs[b].onEmpty THEN NotifyEmpty(w2, b) ELSE w2
          ELSE w1

\* CustomInterval.set as a counter: the n-th interval gets handle firstHandle + n - 1
IntervalSet(w, b) ==
  Append(w.timers, [bucket |-> b, handle |-> firstHandle + Len(w.timers), cancels |-> 0])

TryStart(w, b) ==
  IF Truthy(w, w.bucketObjs[b].intervalId) THEN w
  ELSE [w EXCEPT !.timers = IntervalSet(w, b),
                 !.bucketObjs[b].intervalId = Len(w.timers) + 1]

\* mutant: add does not test #disposed
BucketAddUnchecked(w, b, s) ==
  TryStart([w EXCEPT !.bucketObjs[b].subscriptions = SetAdd(@, s)], b)

BucketAdd(w, b, s) ==
  IF w.bucketObjs[b].disposed THEN Throw(w)
  ELSE TryStart([w EXCEPT !.bucketObjs[b].subscriptions = SetAdd(@, s)], b)

\* -------------------------------------------------------------- IntervalPool
\* mutant: one bucket serves every period (the map lookup ignores the key)
UpsertBucketShared(w, delay) ==
  IF w.buckets[delay] # Undefined THEN w
  ELSE IF \E d \in Delays : w.buckets[d] # Undefined
       THEN [w EXCEPT !.buckets[delay] =
                        w.buckets[CHOOSE d \in Delays : w.buckets[d] # Undefined]]
       ELSE [w EXCEPT !.bucketObjs = Append(@, NewBucket(delay)),
                      !.buckets[delay] = Len(w.bucketObjs) + 1]

\* mutant: a period whose bucket was emptied gets that bucket object back
UpsertBucketRecycles(w, delay) ==
  IF w.buckets[delay] # Undefined THEN w
  ELSE IF \E b \in 1..Len(w.bucketObjs) : w.bucketObjs[b].delay = delay
       THEN [w EXCEPT !.buckets[delay] =
                        CHOOSE b \in 1..Len(w.bucketObjs) : w.bucketObjs[b].delay = delay]
       ELSE [w EXCEPT !.bucketObjs = Append(@, NewBucket(delay)),
                      !.buckets[delay] = Len(w.bucketObjs) + 1]

UpsertBucket(w, delay) ==
  IF w.buckets[delay] # Undefined THEN w
  ELSE [w EXCEPT !.bucketObjs = Append(@, NewBucket(delay)),
                 !.buckets[delay] = Len(w.bucketObjs) + 1]

Subscribe(w, delay, s) ==
  LET w1 == UpsertBucket(w, delay)
  IN BucketAdd(w1, w1.buckets[delay], s)

\* mutant: no optional chaining on the map lookup
UnsubscribeFnUnguarded(w, delay, s) ==
  IF w.buckets[delay] = Undefined THEN Throw(w)
  ELSE BucketRemove(w, w.buckets[delay], s)

\* the closure returned by #subscribe, for subscription s registered at delay
UnsubscribeFn(w, delay, s) ==
  IF w.buckets[delay] = Undefined THEN w
  ELSE BucketRemove(w, w.buckets[delay], s)

RECURSIVE DisposeAll(_, _)
DisposeAll(w, ds) ==
  IF ds = {} THEN w
  ELSE LET d == CHOOSE x \in ds : \A y \in ds : x <= y
       IN DisposeAll(BucketDispose(w, w.buckets[d]), ds \ {d})

\* mutant: clear() disposes the buckets but leaves them in the map
PoolClearKeepsMap(w) == DisposeAll(w, {d \in Delays : w.buckets[d] # Undefined})

\* mutant: clear() stops the interval of every bucket and keeps the buckets
\* with their subscriptions
RECURSIVE StopAll(_, _)
StopAll(w, ds) ==
  IF ds = {} THEN w
  ELSE LET d == CHOOSE x \in ds : \A y \in ds : x <= y
       IN StopAll(BucketStop(w, w.buckets[d]), ds \ {d})

PoolClearStopsOnly(w) == StopAll(w, {d \in Delays : w.buckets[d] # Undefined})

PoolClear(w) ==
  LET w1 == DisposeAll(w, {d \in Delays : w.buckets[d] # Undefined})
  IN [w1 EXCEPT !.buckets = [d \in Delays |-> Undefined]]

\* mutant: the count of subscriptions instead of the count of buckets
getActiveIntervalCountBySubs ==
  Cardinality(UNION {SetElems(bucketObjs[buckets[d]].subscriptions) :
                       d \in {x \in Delays : buckets[x] # Undefined}})

getActiveIntervalCount == Cardinality({d \in Delays : buckets[d] # Undefined})

getSubscriptionCount(delay) ==
  IF buckets[delay] = Undefined THEN 0
  ELSE SetSize(bucketObjs[buckets[delay]].subscriptions)

getStats ==
  {[delay |-> d, subscriptionCount |-> SetSize(bucketObjs[buckets[d]].subscriptions)] :
     d \in {x \in Delays : buckets[x] # Undefined}}

\* ------------------------------------------------------------------ iterate
\* A generator object of iterate(delay). Its body runs from the first next()
\* on; pc is where it is suspended:
\*   "start"    not started (the body has not run, nothing is subscribed)
\*   "await"    at `await new Promise(...)`; woken = the promise was resolved
\*              and the continuation waits for its turn as a microtask
\*   "yielding" inside `yield`, which awaits its operand before it completes
\*              the oldest next() request
\*   "yield"    suspended at `yield`, no request queued
\*   "returning" resumed at `yield` by a return() request, whose value is
\*              awaited before the return completion reaches the try block
\*   "done"     completed
\* lostTicks and resolve are the body's variables (resolve = TRUE: a resolver
\* is stored), sub is the subscription of its run() call, queue the number of
\* next() requests not completed yet, ret = a return() request was made (the
\* consumer calls no next() after it, so it is the last of the queue). stopped
\* is set in the finally block only, so the loop test `!stopped` is true
\* whenever it is evaluated.
\* History: pulls = next() calls, resolved = requests completed, counted =
\* invocations of the callback, early = a tick of the period's bucket came
\* before the first next().
NewSession(delay) ==
  [delay |-> delay, pc |-> "start", lostTicks |-> 0, resolve |-> FALSE, woken |-> FALSE,
   sub |-> 0, queue |-> 0, pulls |-> 0, resolved |-> 0, counted |-> 0, early |-> FALSE,
   ret |-> FALSE, stopped |-> FALSE]

\* the callback of session i is a closure of its own
SessionCallback(i) == NumCallbacks + i

IsSessionSub(s) == subs[s].callback \notin Callbacks

SessionOf(s) == subs[s].callback - NumCallbacks

\* mutant: a pending tick does not keep the body from waiting for the next one
EnterLoopAlwaysWaits(g) == [g EXCEPT !.pc = "await", !.resolve = TRUE, !.woken = FALSE]

\* mutant: the body waits for a promise whose resolver it does not keep
EnterLoopNoResolver(g) ==
  IF g.lostTicks = 0
  THEN [g EXCEPT !.pc = "await", !.resolve = FALSE, !.woken = FALSE]
  ELSE [g EXCEPT !.pc = "yielding"]

\* mutant: run() is called inside the loop, so the body subscribes again each
\* time it comes round with nothing pending
EnterLoopSubscribesAgain(g) ==
  IF g.lostTicks = 0
  THEN [g EXCEPT !.pc = "start"]
  ELSE [g EXCEPT !.pc = "yielding"]

\* the body from the top of `while (!stopped)` to its next suspension
EnterLoop(g) ==
  IF g.lostTicks = 0
  THEN [g EXCEPT !.pc = "await", !.resolve = TRUE, !.woken = FALSE]
  ELSE [g EXCEPT !.pc = "yielding"]

\* mutant: the pending ticks are dropped after a delivery
AfterYieldDrops(g) == EnterLoop([g EXCEPT !.lostTicks = 0])

\* the body resumed at `yield` by a next() request
AfterYield(g) == EnterLoop([g EXCEPT !.lostTicks = @ - 1])

\* mutant: the callback counts the tick but leaves the stored resolver alone
SessionTickNoWake(g) == [g EXCEPT !.lostTicks = @ + 1, !.counted = @ + 1]

\* mutant: the callback calls the stored resolver and keeps it in the slot
SessionTickKeepsResolver(g) ==
  [g EXCEPT !.lostTicks = @ + 1, !.counted = @ + 1, !.woken = g.woken \/ g.resolve]

\* the callback of a session: lostTicks++, and the stored resolver is called
\* and dropped
SessionTick(g) ==
  [g EXCEPT !.lostTicks = @ + 1, !.counted = @ + 1,
            !.woken = g.woken \/ g.resolve, !.resolve = FALSE]

\* history: a tick of bucket b came while a session over b's period had not
\* been started
NoteEarlyTicks(b) ==
  [i \in 1..Len(sessions) |->
     IF sessions[i].pc = "start" /\ buckets[sessions[i].delay] = b
     THEN [sessions[i] EXCEPT !.early = TRUE]
     ELSE sessions[i]]

\* ------------------------------------------------------------------- state
Idle == [bucket |-> 0, cursor |-> 0, cur |-> 0]

InCallback == tick.cur # 0

\* History of one tick of bucket b: the number of subscriptions registered
\* before it began, the subscriptions it invoked (in order) and those among
\* them whose callback threw.
NewLog(b) == [bucket |-> b, before |-> Len(subs), fired |-> <<>>, threw |-> {}]

Init ==
  /\ subs = <<>>
  /\ bucketObjs = <<>>
  /\ buckets = [d \in Delays |-> Undefined]
  /\ timers = <<>>
  /\ firstHandle \in {0, 1}
  /\ tick = Idle
  /\ tickLog = NewLog(0)
  /\ invoked = {}
  /\ live = {}
  /\ lastOp = [op |-> "new", sub |-> 0, err |-> FALSE]
  /\ peerBuckets = [d \in Delays |-> Undefined]
  /\ peerSubs = {}
  /\ peerBucketObjs = {}
  /\ sessions = <<>>

SetWorld(w) ==
  /\ bucketObjs' = w.bucketObjs
  /\ buckets' = w.buckets
  /\ timers' = w.timers

\* the heap after a method of pool p has run
SetWorldOf(p, w) ==
  IF p = 1
  THEN SetWorld(w) /\ UNCHANGED <<peerBuckets, peerBucketObjs>>
  ELSE /\ bucketObjs' = w.bucketObjs
       /\ peerBuckets' = w.buckets
       /\ timers' = w.timers
       /\ peerBucketObjs' = peerBucketObjs \cup ((Len(bucketObjs) + 1)..Len(w.bucketObjs))
       /\ UNCHANGED buckets

\* run(delay, callback) / once(delay, callback) of pool p, from the caller or
\* from inside a running callback.
SubscribeOp(p, delay, callback, once) ==
  /\ Len(subs) < MaxSubs
  /\ LET s == Len(subs) + 1
         w == Subscribe(WorldOf(p), delay, s)
     IN /\ subs' = Append(subs, [delay |-> delay, once |-> once, callback |-> callback])
        /\ SetWorldOf(p, w)
        /\ live' = live \cup {s}
        /\ lastOp' = [op |-> IF once THEN "once" ELSE "run", sub |-> s, err |-> w.err]
        /\ peerSubs' = IF p = 2 THEN peerSubs \cup {s} ELSE peerSubs
  /\ UNCHANGED <<firstHandle, tick, tickLog, invoked>>

Run(delay, callback) == SubscribeOp(1, delay, callback, FALSE) /\ UNCHANGED sessions

Once(delay, callback) == SubscribeOp(1, delay, callback, TRUE) /\ UNCHANGED sessions

PeerRun(delay, callback) == SubscribeOp(2, delay, callback, FALSE) /\ UNCHANGED sessions

PeerOnce(delay, callback) == SubscribeOp(2, delay, callback, TRUE) /\ UNCHANGED sessions

\* invoking the unsubscribe function of subscription s
UnsubscribeOp(s) ==
  /\ s \in 1..Len(subs)
  /\ LET w == UnsubscribeFn(WorldOf(PoolOfSub(s)), subs[s].delay, s)
     IN /\ SetWorldOf(PoolOfSub(s), w)
        /\ lastOp' = [op |-> "unsubscribe", sub |-> s, err |-> w.err]
  /\ live' = live \ {s}
  /\ UNCHANGED <<subs, firstHandle, tick, tickLog, invoked, peerSubs>>

Unsubscribe(s) == UnsubscribeOp(s) /\ UNCHANGED sessions

\* clear() of pool p
ClearIn(p) ==
  /\ LET w == PoolClear(WorldOf(p))
     IN /\ SetWorldOf(p, w)
        /\ lastOp' = [op |-> "clear", sub |-> 0, err |-> w.err]
  /\ live' = {s \in live : PoolOfSub(s) # p}
  /\ UNCHANGED <<subs, firstHandle, tick, tickLog, invoked, peerSubs, sessions>>

Clear == ClearIn(1)

PeerClear == ClearIn(2)

\* forEach moves on from cursor in bucket b: either the callback of the next
\* live entry is entered, or the tick handler returns.
ForEachStep(b, cursor, log, op) ==
  LET entries == bucketObjs'[b].subscriptions
      n == ForEachNext(entries, cursor)
  IN IF n = 0
     THEN /\ tick' = Idle
          /\ tickLog' = log
          /\ invoked' = invoked
          /\ lastOp' = [op |-> op, sub |-> 0, err |-> FALSE]
     ELSE /\ tick' = [bucket |-> b, cursor |-> n, cur |-> entries[n]]
          /\ tickLog' = [log EXCEPT !.fired = Append(@, entries[n])]
          /\ invoked' = invoked \cup {entries[n]}
          /\ lastOp' = [op |-> op, sub |-> entries[n], err |-> FALSE]

\* the capability fires interval t: #handleIntervalTick of its bucket starts
TimerFires(t) ==
  /\ ~InCallback
  /\ t \in 1..Len(timers)
  /\ timers[t].cancels = 0
  /\ UNCHANGED <<subs, bucketObjs, buckets, timers, firstHandle, live>>
  /\ UNCHANGED <<peerBuckets, peerSubs, peerBucketObjs>>
  /\ sessions' = NoteEarlyTicks(timers[t].bucket)
  /\ ForEachStep(timers[t].bucket, 0, NewLog(timers[t].bucket), "tick")

\* mutant: the callback's exception is not caught, it ends forEach and the tick
CallbackEndsUncaught(threw) ==
  /\ InCallback
  /\ LET s == tick.cur
         p == PoolOfBucket(tick.bucket)
         w == IF subs[s].once THEN BucketRemove(WorldOf(p), tick.bucket, s) ELSE WorldOf(p)
         log == IF threw THEN [tickLog EXCEPT !.threw = @ \cup {s}] ELSE tickLog
     IN /\ SetWorldOf(p, w)
        /\ live' = IF subs[s].once THEN live \ {s} ELSE live
        /\ IF w.err \/ threw
           THEN /\ tick' = Idle
                /\ tickLog' = log
                /\ lastOp' = [op |-> "tick", sub |-> s, err |-> TRUE]
                /\ UNCHANGED invoked
           ELSE ForEachStep(tick.bucket, tick.cursor, log, "return")
  /\ UNCHANGED <<subs, firstHandle, peerSubs, sessions>>

\* mutant: a once subscription is removed after the callback inside try, so a
\* throwing callback skips the removal
CallbackEndsRemoveInTry(threw) ==
  /\ InCallback
  /\ LET s == tick.cur
         rm == subs[s].once /\ ~threw
         p == PoolOfBucket(tick.bucket)
         w == IF rm THEN BucketRemove(WorldOf(p), tick.bucket, s) ELSE WorldOf(p)
         log == IF threw THEN [tickLog EXCEPT !.threw = @ \cup {s}] ELSE tickLog
     IN /\ SetWorldOf(p, w)
        /\ live' = IF subs[s].once THEN live \ {s} ELSE live
        /\ ForEachStep(tick.bucket, tick.cursor, log, IF threw \/ w.err THEN "throw" ELSE "return")
  /\ UNCHANGED <<subs, firstHandle, peerSubs, sessions>>

\* the running callback returns (threw = FALSE) or throws (threw = TRUE):
\* catch logs, finally removes a once subscription, forEach moves on. An
\* exception of remove leaves the finally block, forEach and the tick handler.
CallbackEnds(threw) ==
  /\ InCallback
  /\ ~IsSessionSub(tick.cur)
  /\ LET s == tick.cur
         p == PoolOfBucket(tick.bucket)
         w == IF subs[s].once THEN BucketRemove(WorldOf(p), tick.bucket, s) ELSE WorldOf(p)
         log == IF threw THEN [tickLog EXCEPT !.threw = @ \cup {s}] ELSE tickLog
     IN /\ SetWorldOf(p, w)
        /\ live' = IF subs[s].once THEN live \ {s} ELSE live
        /\ IF w.err
           THEN /\ tick' = Idle
                /\ tickLog' = log
                /\ lastOp' = [op |-> "tick", sub |-> s, err |-> TRUE]
                /\ UNCHANGED invoked
           ELSE ForEachStep(tick.bucket, tick.cursor, log,
                            IF threw THEN "throw" ELSE "return")
  /\ UNCHANGED <<subs, firstHandle, peerSubs, sessions>>

CallbackReturns == CallbackEnds(FALSE)

CallbackThrows == CallbackEnds(TRUE)

\* Every interval is set inside an add, so there are at most MaxSubs of them.
Next ==
  \/ \E d \in Delays, c \in Callbacks : Run(d, c)
  \/ \E d \in Delays, c \in Callbacks : Once(d, c)
  \/ \E s \in SubIds : Unsubscribe(s)
  \/ Clear
  \/ \E t \in SubIds : TimerFires(t)
  \/ CallbackReturns
  \/ CallbackThrows

Spec == Init /\ [][Next]_vars

\* ------------------------------------------------- a bucket used directly
\* new IntervalBucket(interval, delay, onEmpty) with a recording onEmpty
Construct(delay) ==
  /\ Len(bucketObjs) < MaxBuckets
  /\ bucketObjs' = Append(bucketObjs, NewMockBucket(delay))
  /\ lastOp' = [op |-> "construct", sub |-> 0, err |-> FALSE]
  /\ UNCHANGED <<subs, buckets, timers, firstHandle, tick, tickLog, invoked, live,
                 peerBuckets, peerSubs, peerBucketObjs, sessions>>

DirectBucket(b) == b \in 1..Len(bucketObjs) /\ bucketObjs[b].mock

\* bucket.add(s), s a subscription object added before or a new one
BucketAddOp(b, s, once, callback) ==
  /\ DirectBucket(b)
  /\ s \in 1..Len(subs) \/ (s = Len(subs) + 1 /\ s <= MaxSubs)
  /\ s <= Len(subs) => (once = subs[s].once /\ callback = subs[s].callback)
  /\ LET w == BucketAdd(World, b, s)
     IN /\ Len(w.timers) <= MaxSubs
        /\ Len(w.bucketObjs[b].subscriptions) <= MaxEntries
        /\ SetWorld(w)
        /\ live' = IF w.err THEN live ELSE live \cup {s}
        /\ lastOp' = [op |-> "add", sub |-> s, err |-> w.err]
  /\ subs' = IF s <= Len(subs) THEN subs
             ELSE Append(subs, [delay |-> bucketObjs[b].delay, once |-> once,
                                callback |-> callback])
  /\ UNCHANGED <<firstHandle, tick, tickLog, invoked, peerBuckets, peerSubs,
                 peerBucketObjs, sessions>>

\* bucket.remove(s)
BucketRemoveOp(b, s) ==
  /\ DirectBucket(b)
  /\ s \in 1..Len(subs)
  /\ bucketObjs[b].notified < MaxNotified
  /\ LET w == BucketRemove(World, b, s)
     IN /\ SetWorld(w)
        /\ live' = IF w.err THEN live ELSE live \ {s}
        /\ lastOp' = [op |-> "remove", sub |-> s, err |-> w.err]
  /\ UNCHANGED <<subs, firstHandle, tick, tickLog, invoked, peerBuckets, peerSubs,
                 peerBucketObjs, sessions>>

\* bucket.stop()
BucketStopOp(b) ==
  /\ DirectBucket(b)
  /\ LET w == BucketStop(World, b)
     IN /\ SetWorld(w)
        /\ lastOp' = [op |-> "stop", sub |-> 0, err |-> w.err]
  /\ UNCHANGED <<subs, firstHandle, tick, tickLog, invoked, live, peerBuckets, peerSubs,
                 peerBucketObjs, sessions>>

\* bucket.dispose()
BucketDisposeOp(b) ==
  /\ DirectBucket(b)
  /\ LET w == BucketDispose(World, b)
     IN /\ SetWorld(w)
        /\ lastOp' = [op |-> "dispose", sub |-> 0, err |-> w.err]
  /\ live' = live \ SetElems(bucketObjs[b].subscriptions)
  /\ UNCHANGED <<subs, firstHandle, tick, tickLog, invoked, peerBuckets, peerSubs,
                 peerBucketObjs, sessions>>

\* A bucket on its own, called by its owner and from inside its callbacks.
BucketDelays == {1}

NextBucket ==
  \/ \E d \in BucketDelays : Construct(d)
  \/ \E b \in 1..MaxBuckets, s \in SubIds, o \in BOOLEAN, c \in Callbacks :
       BucketAddOp(b, s, o, c)
  \/ \E b \in 1..MaxBuckets, s \in SubIds : BucketRemoveOp(b, s)
  \/ \E b \in 1..MaxBuckets : BucketStopOp(b)
  \/ \E b \in 1..MaxBuckets : BucketDisposeOp(b)
  \/ \E t \in SubIds : TimerFires(t)
  \/ CallbackReturns
  \/ CallbackThrows

SpecBucket == Init /\ [][NextBucket]_vars

\* ------------------------------------- the IntervalBucket of src/src/bucket.ts
\* The bucket with onStop instead of onEmpty: no #disposed flag, delete instead
\* of remove, and #tryStop, which reports to onStop only when it cleared an
\* interval. Its objects are kept in bucketObjs too; notified counts the calls
\* of onStop (a recording function), disposed and onEmpty are not used.
OldNewBucket(delay) == NewMockBucket(delay)

OldTryStart(w, b) ==
  IF Truthy(w, w.bucketObjs[b].intervalId) THEN w
  ELSE [w EXCEPT !.timers = IntervalSet(w, b),
                 !.bucketObjs[b].intervalId = Len(w.timers) + 1]

OldTryStop(w, b) ==
  LET bk == w.bucketObjs[b] IN
  IF SetSize(bk.subscriptions) > 0 THEN w
  ELSE IF ~Truthy(w, bk.intervalId) THEN w
  ELSE [w EXCEPT !.timers[bk.intervalId].cancels = @ + 1,
                 !.bucketObjs[b].intervalId = Undefined,
                 !.bucketObjs[b].notified = @ + 1]

OldBucketAdd(w, b, s) ==
  OldTryStart([w EXCEPT !.bucketObjs[b].subscriptions = SetAdd(@, s)], b)

OldBucketDelete(w, b, s) ==
  OldTryStop([w EXCEPT !.bucketObjs[b].subscriptions = SetDelete(@, s)], b)

OldBucketDispose(w, b) ==
  OldTryStop([w EXCEPT !.bucketObjs[b].subscriptions = SetClear(@)], b)

\* new IntervalBucket(interval, delay, onStop)
OldConstruct(delay) ==
  /\ Len(bucketObjs) < MaxBuckets
  /\ bucketObjs' = Append(bucketObjs, OldNewBucket(delay))
  /\ lastOp' = [op |-> "construct", sub |-> 0, err |-> FALSE]
  /\ UNCHANGED <<subs, buckets, timers, firstHandle, tick, tickLog, invoked, live,
                 peerBuckets, peerSubs, peerBucketObjs, sessions>>

\* bucket.add(s), s a subscription object added before or a new one
OldAddOp(b, s, once, callback) ==
  /\ DirectBucket(b)
  /\ s \in 1..Len(subs) \/ (s = Len(subs) + 1 /\ s <= MaxSubs)
  /\ s <= Len(subs) => (once = subs[s].once /\ callback = subs[s].callback)
  /\ LET w == OldBucketAdd(World, b, s)
     IN /\ Len(w.timers) <= MaxSubs
        /\ Len(w.bucketObjs[b].subscriptions) <= MaxEntries
        /\ SetWorld(w)
        /\ live' = live \cup {s}
        /\ lastOp' = [op |-> "add", sub |-> s, err |-> FALSE]
  /\ subs' = IF s <= Len(subs) THEN subs
             ELSE Append(subs, [delay |-> bucketObjs[b].delay, once |-> once,
                                callback |-> callback])
  /\ UNCHANGED <<firstHandle, tick, tickLog, invoked, peerBuckets, peerSubs,
                 peerBucketObjs, sessions>>

\* bucket.delete(s)
OldDeleteOp(b, s) ==
  /\ DirectBucket(b)
  /\ s \in 1..Len(subs)
  /\ SetWorld(OldBucketDelete(World, b, s))
  /\ live' = live \ {s}
  /\ lastOp' = [op |-> "delete", sub |-> s, err |-> FALSE]
  /\ UNCHANGED <<subs, firstHandle, tick, tickLog, invoked, peerBuckets, peerSubs,
                 peerBucketObjs, sessions>>

\* bucket.dispose()
OldDisposeOp(b) ==
  /\ DirectBucket(b)
  /\ SetWorld(OldBucketDispose(World, b))
  /\ live' = live \ SetElems(bucketObjs[b].subscriptions)
  /\ lastOp' = [op |-> "dispose", sub |-> 0, err |-> FALSE]
  /\ UNCHANGED <<subs, firstHandle, tick, tickLog, invoked, peerBuckets, peerSubs,
                 peerBucketObjs, sessions>>

\* the running callback returns or throws: catch logs, finally deletes a once
\* subscription (delete does not throw), forEach moves on
OldCallbackEnds(threw) ==
  /\ InCallback
  /\ LET s == tick.cur
         w == IF subs[s].once THEN OldBucketDelete(World, tick.bucket, s) ELSE World
         log == IF threw THEN [tickLog EXCEPT !.threw = @ \cup {s}] ELSE tickLog
     IN /\ SetWorld(w)
        /\ live' = IF subs[s].once THEN live \ {s} ELSE live
        /\ ForEachStep(tick.bucket, tick.cursor, log, IF threw THEN "throw" ELSE "return")
  /\ UNCHANGED <<subs, firstHandle, peerBuckets, peerSubs, peerBucketObjs, sessions>>

OldCallbackReturns == OldCallbackEnds(FALSE)

OldCallbackThrows == OldCallbackEnds(TRUE)

\* The older bucket on its own, called by its owner and from inside its
\* callbacks.
NextOld ==
  \/ \E d \in BucketDelays : OldConstruct(d)
  \/ \E b \in 1..MaxBuckets, s \in SubIds, o \in BOOLEAN, c \in Callbacks :
       OldAddOp(b, s, o, c)
  \/ \E b \in 1..MaxBuckets, s \in SubIds : OldDeleteOp(b, s)
  \/ \E b \in 1..MaxBuckets : OldDisposeOp(b)
  \/ \E t \in SubIds : TimerFires(t)
  \/ OldCallbackReturns
  \/ OldCallbackThrows

SpecOld == Init /\ [][NextOld]_vars

\* code handed to the pool by its user is running (not the callback of an
\* iteration session, which calls nothing)
UserCode == IF InCallback THEN ~IsSessionSub(tick.cur) ELSE TRUE

\* pool.iterate(delay): the generator object is created, its body does not run
\* (at most n generator objects are created)
IterateUpTo(n, delay) ==
  /\ UserCode
  /\ Len(sessions) < n
  /\ sessions' = Append(sessions, NewSession(delay))
  /\ UNCHANGED <<subs, bucketObjs, buckets, timers, firstHandle, tick, tickLog, invoked,
                 live, lastOp, peerBuckets, peerSubs, peerBucketObjs>>

Iterate(delay) == IterateUpTo(MaxSessions, delay)

\* the consumer calls next() on generator i
Pull(i) ==
  /\ UserCode
  /\ i \in 1..Len(sessions)
  /\ sessions[i].pulls < MaxPulls
  /\ ~sessions[i].ret
  /\ LET g == [sessions[i] EXCEPT !.pulls = @ + 1, !.queue = @ + 1]
     IN CASE g.pc = "start" ->
               /\ SubscribeOp(1, g.delay, SessionCallback(i), FALSE)
               /\ sessions' = [sessions EXCEPT ![i] = EnterLoop([g EXCEPT !.sub = Len(subs) + 1])]
          [] g.pc = "yield" ->
               /\ sessions' = [sessions EXCEPT ![i] = AfterYield(g)]
               /\ UNCHANGED <<subs, bucketObjs, buckets, timers, firstHandle, tick, tickLog,
                              invoked, live, lastOp, peerBuckets, peerSubs, peerBucketObjs>>
          [] OTHER ->
               /\ sessions' = [sessions EXCEPT ![i] = g]
               /\ UNCHANGED <<subs, bucketObjs, buckets, timers, firstHandle, tick, tickLog,
                              invoked, live, lastOp, peerBuckets, peerSubs, peerBucketObjs>>

\* a microtask: the continuation of generator i runs to its next suspension
Resume(i) ==
  /\ ~InCallback
  /\ i \in 1..Len(sessions)
  /\ LET g == sessions[i]
     IN CASE g.pc = "await" /\ g.woken ->
               sessions' = [sessions EXCEPT ![i] = EnterLoop([g EXCEPT !.woken = FALSE])]
          [] g.pc = "yielding" ->
               LET g1 == [g EXCEPT !.resolved = @ + 1, !.queue = @ - 1]
               IN sessions' = [sessions EXCEPT ![i] =
                                 IF g1.queue > 0 THEN AfterYield(g1)
                                 ELSE IF g1.ret THEN [g1 EXCEPT !.pc = "returning"]
                                 ELSE [g1 EXCEPT !.pc = "yield"]]
          [] OTHER -> FALSE
  /\ UNCHANGED <<subs, bucketObjs, buckets, timers, firstHandle, tick, tickLog, invoked,
                 live, lastOp, peerBuckets, peerSubs, peerBucketObjs>>

\* the consumer calls return() on generator i (break, return or an exception
\* in the body of for await): a generator that was never started completes
\* without running its body, one suspended at `yield` is resumed with a return
\* completion, and a running one queues the request
Return(i) ==
  /\ UserCode
  /\ i \in 1..Len(sessions)
  /\ ~sessions[i].ret
  /\ LET g == [sessions[i] EXCEPT !.ret = TRUE]
     IN sessions' = [sessions EXCEPT ![i] =
                       CASE g.pc = "start" -> [g EXCEPT !.pc = "done"]
                         [] g.pc = "yield" -> [g EXCEPT !.pc = "returning"]
                         [] OTHER -> g]
  /\ UNCHANGED <<subs, bucketObjs, buckets, timers, firstHandle, tick, tickLog, invoked,
                 live, lastOp, peerBuckets, peerSubs, peerBucketObjs>>

\* a microtask: the return completion reaches the body of generator i, whose
\* finally block sets stopped and calls unsubscribe(); the generator completes
Teardown(i) ==
  /\ ~InCallback
  /\ i \in 1..Len(sessions)
  /\ sessions[i].pc = "returning"
  /\ UnsubscribeOp(sessions[i].sub)
  /\ sessions' = [sessions EXCEPT ![i] = [@ EXCEPT !.pc = "done", !.stopped = TRUE]]

\* the tick handler invoked the callback of a session: it runs and returns
IterateCallback ==
  /\ InCallback
  /\ IsSessionSub(tick.cur)
  /\ sessions' = [sessions EXCEPT ![SessionOf(tick.cur)] = SessionTick(@)]
  /\ UNCHANGED <<subs, bucketObjs, buckets, timers, firstHandle, live,
                 peerBuckets, peerSubs, peerBucketObjs>>
  /\ ForEachStep(tick.bucket, tick.cursor, tickLog, "return")

\* no session that the tick of interval t reaches has counted MaxTicks ticks
TickBound(t) ==
  /\ t \in 1..Len(timers)
  /\ \A i \in 1..Len(sessions) :
       (sessions[i].sub # 0
          /\ SetHas(bucketObjs[timers[t].bucket].subscriptions, sessions[i].sub))
         => sessions[i].counted < MaxTicks

\* One pool, with iteration sessions next to recurring subscriptions whose
\* callbacks return, all at one period.
IterDelays == {1}

NextIter ==
  \/ \E d \in IterDelays : Iterate(d)
  \/ \E i \in 1..MaxSessions : Pull(i)
  \/ \E i \in 1..MaxSessions : Resume(i)
  \/ IterateCallback
  \/ \E d \in IterDelays, c \in Callbacks : UserCode /\ Run(d, c)
  \/ \E s \in SubIds : UserCode /\ s \in 1..Len(subs) /\ ~IsSessionSub(s) /\ Unsubscribe(s)
  \/ UserCode /\ Clear
  \/ \E t \in SubIds : TickBound(t) /\ TimerFires(t)
  \/ CallbackReturns

SpecIter == Init /\ [][NextIter]_vars

\* Callbacks return, and a continuation that is ready runs at a microtask
\* checkpoint, which comes whenever the stack empties (so ticks cannot keep it
\* from its turn for ever); nothing makes the timer fire or the consumer pull.
SpecIterFair ==
  /\ SpecIter
  /\ WF_vars(CallbackReturns)
  /\ WF_vars(IterateCallback)
  /\ \A i \in 1..MaxSessions : SF_vars(Resume(i))

\* interval t ticks a bucket that holds subscriptions
Serving(t) ==
  /\ t \in 1..Len(timers)
  /\ SetSize(bucketObjs[timers[t].bucket].subscriptions) > 0

\* As SpecIterFair, and a bucket that holds subscriptions keeps being ticked
\* (the capability fires an interval again and again until it is cleared).
SpecIterTimed ==
  /\ SpecIterFair
  /\ WF_vars(\E t \in SubIds : Serving(t) /\ TickBound(t) /\ TimerFires(t))

\* One session that the consumer may end with return(), next to recurring
\* subscriptions.
NextStop ==
  \/ NextIter
  \/ \E i \in 1..MaxSessions : Return(i)
  \/ \E i \in 1..MaxSessions : Teardown(i)

SpecStop == Init /\ [][NextStop]_vars

\* As SpecStop, where callbacks return and the continuations that are ready
\* (a resumed body, a return completion) get their microtask; nothing makes
\* the timer fire or the consumer act.
SpecStopFair ==
  /\ SpecStop
  /\ WF_vars(CallbackReturns)
  /\ WF_vars(IterateCallback)
  /\ \A i \in 1..MaxSessions : SF_vars(Resume(i))
  /\ \A i \in 1..MaxSessions : WF_vars(Teardown(i))

\* Two sessions over one period and nothing else in the pool.
NextTwo ==
  \/ \E d \in IterDelays : IterateUpTo(MaxPair, d)
  \/ \E i \in 1..MaxPair : Pull(i)
  \/ \E i \in 1..MaxPair : Resume(i)
  \/ \E i \in 1..MaxPair : Return(i)
  \/ \E i \in 1..MaxPair : Teardown(i)
  \/ IterateCallback
  \/ \E t \in SubIds : TickBound(t) /\ TimerFires(t)

SpecTwo == Init /\ [][NextTwo]_vars

\* Two pools on one capability. The second pool registers at one period,
\* which the first pool uses too; callbacks return.
PeerDelays == {1}

NextPools ==
  \/ \E d \in Delays, c \in Callbacks : Run(d, c)
  \/ \E d \in Delays, c \in Callbacks : Once(d, c)
  \/ \E s \in SubIds : Unsubscribe(s)
  \/ Clear
  \/ \E t \in SubIds : TimerFires(t)
  \/ CallbackReturns
  \/ \E d \in PeerDelays, c \in Callbacks : PeerRun(d, c)
  \/ \E d \in PeerDelays, c \in Callbacks : PeerOnce(d, c)
  \/ PeerClear

SpecPools == Init /\ [][NextPools]_vars

\* ------------------------------------------------------------ observations
\* the subscriptions the pool holds for a period
LiveSubs(d) ==
  IF buckets[d] = Undefined THEN {}
  ELSE SetElems(bucketObjs[buckets[d]].subscriptions)

\* the intervals of the capability that were set for period d and not cleared
LiveTimers(d) ==
  {t \in 1..Len(timers) : timers[t].cancels = 0 /\ bucketObjs[timers[t].bucket].delay = d}

TypeOK ==
  /\ Len(subs) <= MaxSubs
  /\ Len(bucketObjs) <= MaxSubs
  /\ Len(timers) <= MaxSubs
  /\ \A d \in Delays : buckets[d] \in 0..Len(bucketObjs)

\* the subscriptions of period d that the reference holds as registered
Registered(d) == {s \in live : subs[s].delay = d}

\* how often subscription s was invoked by the tick of tickLog
FiredCount(s) == Cardinality({i \in 1..Len(tickLog.fired) : tickLog.fired[i] = s})

\* the latest tick (not running any more) was a tick of period d's current bucket
TickDoneOn(d) == ~InCallback /\ tickLog.bucket # 0 /\ tickLog.bucket = buckets[d]

\* ------------------------------------------------------------------ claims

\* C1 (Coalescing): every period with at least one live subscription has
\* exactly one live interval of the timer capability, so n registrations at
\* one period call set once.
C1_OneTimerPerPeriod ==
  \A d \in Delays : LiveSubs(d) # {} => Cardinality(LiveTimers(d)) = 1

\* C2 (Bucket invariant): between operations, a bucket holds an interval
\* handle if and only if its subscription set is non-empty.
C2_HandleIffNonEmpty ==
  ~InCallback =>
    \A b \in 1..Len(bucketObjs) :
      (bucketObjs[b].intervalId # Undefined) <=> (SetSize(bucketObjs[b].subscriptions) > 0)

\* C3 (Pool mapping invariant): in every state a period is a key of #buckets
\* if and only if it has a registered, not yet removed subscription, and a
\* bucket that holds subscriptions is the bucket mapped at its period (an
\* emptied bucket leaves the map in the operation that emptied it).
C3_MappingInvariant ==
  /\ \A d \in Delays : (buckets[d] # Undefined) <=> (Registered(d) # {})
  /\ \A d \in Delays : buckets[d] # Undefined => LiveSubs(d) # {}
  /\ \A b \in 1..Len(bucketObjs) :
       SetSize(bucketObjs[b].subscriptions) > 0 => buckets[bucketObjs[b].delay] = b

\* a once subscription's auto-removal emptied its bucket in the tick's last
\* step, while the other period keeps its key
C3_Witness ==
  /\ lastOp.op \in {"return", "throw"}
  /\ ~InCallback
  /\ tickLog.fired # <<>>
  /\ LET s == tickLog.fired[Len(tickLog.fired)]
     IN /\ subs[s].once
        /\ buckets[subs[s].delay] = Undefined
        /\ \E d \in Delays : buckets[d] # Undefined

\* C4 (Release on empty): a step in which unsubscribe or once auto-removal
\* takes the last subscription of a period clears exactly one interval of
\* that period, once, and drops the period from the map; a removal that
\* leaves other subscriptions of the period clears nothing.
C4_RemovalStep(d) ==
  /\ lastOp'.op \in {"unsubscribe", "return", "throw", "tick"}
  /\ LiveSubs(d) # {}
  /\ LiveSubs(d)' # LiveSubs(d)

C4_ReleaseOnEmpty ==
  [][\A d \in Delays :
       C4_RemovalStep(d) =>
         IF LiveSubs(d)' = {}
         THEN /\ buckets'[d] = Undefined
              /\ Len(timers') = Len(timers)
              /\ \E t \in LiveTimers(d) :
                   /\ timers'[t].cancels = 1
                   /\ \A u \in 1..Len(timers) : u # t => timers'[u] = timers[u]
         ELSE timers' = timers]_vars

\* C5 (Fan-out ordering): the subscriptions a tick invokes all belong to the
\* tick's period and are invoked in the order of their registration
\* (subscription objects are numbered in registration order).
C5_FanOutOrder ==
  /\ \A i, j \in 1..Len(tickLog.fired) :
       i < j => tickLog.fired[i] < tickLog.fired[j]
  /\ \A i \in 1..Len(tickLog.fired) :
       subs[tickLog.fired[i]].delay = bucketObjs[tickLog.bucket].delay

\* a finished tick invoked subscriptions 2 and 3 of a period whose first
\* subscription had been removed before
C5_Witness ==
  /\ ~InCallback
  /\ tickLog.fired = <<2, 3>>
  /\ tickLog.before = 3
  /\ subs[1].delay = subs[2].delay
  /\ 1 \notin live

\* C6 (Isolation): after a tick in which a callback threw, every subscription
\* of the period that was registered before the tick and is still registered
\* was invoked exactly once by that tick; and the step in which a recurring
\* subscription's callback throws leaves that subscription in its bucket.
C6_OthersStillRun ==
  \A d \in Delays :
    (TickDoneOn(d) /\ tickLog.threw # {}) =>
      \A s \in Registered(d) : s <= tickLog.before => FiredCount(s) = 1

C6_ThrowerStays ==
  \A s \in 1..Len(subs), d \in Delays :
    (CallbackThrows /\ tick.cur = s /\ ~subs[s].once /\ subs[s].delay = d /\ s \in LiveSubs(d))
      => s \in LiveSubs(d)'

C6_Isolation == [](C6_OthersStillRun) /\ [][C6_ThrowerStays]_vars

\* the second of three recurring subscriptions threw, the tick went on to the
\* third, and all three are still registered
C6_Witness ==
  /\ ~InCallback
  /\ tickLog.fired = <<1, 2, 3>>
  /\ tickLog.threw = {2}
  /\ live = {1, 2, 3}
  /\ lastOp.op = "return"

\* C7 (Once semantics): a once subscription is never invoked a second time;
\* after its invocation has ended it is not in its period's bucket any more,
\* whether the callback returned or threw; and a once subscription still
\* registered after a tick of its bucket was registered after that tick began
\* (so the first tick after registration is the one that invokes it).
Invocation(s) == tick'.cur = s /\ tick' # tick

C7_OnceState ==
  \A s \in 1..Len(subs) :
    subs[s].once =>
      /\ (s \in invoked /\ tick.cur # s) => s \notin LiveSubs(subs[s].delay)
      /\ (TickDoneOn(subs[s].delay) /\ s \in LiveSubs(subs[s].delay)) => s > tickLog.before

C7_OnceStep ==
  \A s \in 1..Len(subs) : (subs[s].once /\ Invocation(s)) => s \notin invoked

C7_OnceSemantics == [](C7_OnceState) /\ [][C7_OnceStep]_vars

\* a once subscription was invoked and is gone; a later tick of its period,
\* begun after its registration, invoked only the recurring subscription
\* registered before it
C7_Witness ==
  /\ ~InCallback
  /\ \E s, r \in 1..Len(subs) :
       /\ subs[s].once /\ s \in invoked
       /\ ~subs[r].once /\ subs[r].delay = subs[s].delay /\ r < s
       /\ tickLog.fired = <<r>> /\ tickLog.before >= s
       /\ getSubscriptionCount(subs[s].delay) = 1

\* C8 (Idempotent unsubscribe): invoking the unsubscribe function of a
\* subscription that is not registered any more (unsubscribed before, removed
\* by clear(), or a once subscription that fired) throws nothing and leaves
\* buckets, map and intervals as they were.
C8_IdempotentUnsubscribe ==
  [][\A s \in 1..Len(subs) :
       (Unsubscribe(s) /\ s \notin live) =>
         (~lastOp'.err /\ UNCHANGED <<bucketObjs, buckets, timers>>)]_vars

\* outside any tick, the unsubscribe function of a once subscription that has
\* fired was invoked, while its period has other subscriptions
C8_Witness ==
  /\ ~InCallback
  /\ lastOp.op = "unsubscribe"
  /\ ~lastOp.err
  /\ subs[lastOp.sub].once
  /\ lastOp.sub \in invoked
  /\ getSubscriptionCount(subs[lastOp.sub].delay) = 1

\* C9 (Unsubscribe removes only its own subscription): an unsubscribe call
\* takes nothing but its own subscription out of any period's set, and leaves
\* the buckets of other periods untouched.
C9_UnsubscribeFrame ==
  [][\A s \in 1..Len(subs) :
       Unsubscribe(s) =>
         /\ \A d \in Delays : LiveSubs(d)' = LiveSubs(d) \ {s}
         /\ \A d \in Delays \ {subs[s].delay} :
              /\ buckets'[d] = buckets[d]
              /\ buckets[d] # Undefined => bucketObjs'[buckets[d]] = bucketObjs[buckets[d]]]_vars

\* subscription 1 created bucket 1; that bucket was dropped, bucket 2 now
\* serves the same period, and the unsubscribe function of 1 was invoked
C9_Witness ==
  /\ lastOp = [op |-> "unsubscribe", sub |-> 1, err |-> FALSE]
  /\ buckets[subs[1].delay] = 2
  /\ bucketObjs[1].disposed
  /\ LiveSubs(subs[1].delay) = {2, 3}

\* C10 (No deduplication): registrations with the same callback value at the
\* same period are separate subscriptions: the pool holds as many of them as
\* were registered and not removed, getSubscriptionCount reports them all, and
\* a finished tick of the period invoked the callback at least once per
\* subscription that was registered before the tick and is still registered.
SameCallback(S, c) == {s \in S : subs[s].callback = c}

FiredWith(c) == {i \in 1..Len(tickLog.fired) : subs[tickLog.fired[i]].callback = c}

C10_NoDeduplication ==
  \A d \in Delays :
    /\ getSubscriptionCount(d) = Cardinality(Registered(d))
    /\ \A c \in Callbacks :
         /\ SameCallback(LiveSubs(d), c) = SameCallback(Registered(d), c)
         /\ TickDoneOn(d) =>
              Cardinality(FiredWith(c)) >=
                Cardinality({s \in SameCallback(Registered(d), c) : s <= tickLog.before})

\* three subscriptions with one callback value at one period were all invoked
\* by a tick; then one was unsubscribed and the count is 2
C10_Witness ==
  /\ ~InCallback
  /\ Len(subs) = 3
  /\ \A s \in 1..3 : subs[s].callback = subs[1].callback /\ subs[s].delay = subs[1].delay
  /\ tickLog.fired = <<1, 2, 3>>
  /\ lastOp.op = "unsubscribe"
  /\ Cardinality(live) = 2
  /\ getSubscriptionCount(subs[1].delay) = 2

\* C11 (Unsubscribe stops invocations): a tick only ever invokes a subscription
\* that is still registered, so once the unsubscribe function of a
\* subscription has returned no later tick invokes its callback; and when an
\* unsubscribe call leaves no subscription registered, getActiveIntervalCount()
\* is 0.
C11_NotInvokedLater == \A s \in 1..Len(subs) : Invocation(s) => s \in live

C11_AloneLeavesNone ==
  (lastOp.op = "unsubscribe" /\ live = {}) => getActiveIntervalCount = 0

C11_UnsubscribeStops == [](C11_AloneLeavesNone) /\ [][C11_NotInvokedLater]_vars

\* recurring subscription 1 was unsubscribed before it was ever invoked (its
\* bucket was never dropped); a later tick of that bucket invoked subscription 2
C11_Witness ==
  /\ ~InCallback
  /\ Len(subs) >= 2
  /\ ~subs[1].once /\ 1 \notin live /\ 1 \notin invoked
  /\ buckets[subs[1].delay] = 1
  /\ tickLog.bucket = 1 /\ tickLog.fired = <<2>>

\* C12 (clear): a clear() step throws nothing, leaves the map empty
\* (getActiveIntervalCount() = 0, getStats() empty) and leaves no interval of
\* the capability uncancelled; and no subscription that clear() removed is
\* invoked afterwards.
C12_ClearStep ==
  Clear =>
    /\ ~lastOp'.err
    /\ \A d \in Delays : buckets'[d] = Undefined
    /\ getActiveIntervalCount' = 0
    /\ getStats' = {}
    /\ \A t \in 1..Len(timers') : timers'[t].cancels >= 1

C12_NoneInvokedAfter == \A s \in 1..Len(subs) : Invocation(s) => s \in live

C12_Clear == [][C12_ClearStep /\ C12_NoneInvokedAfter]_vars

\* C13 (Count queries): getSubscriptionCount(p) is the number of subscriptions
\* registered at p and not removed since (by unsubscribe, once firing or
\* clear), 0 for a period without bucket; getActiveIntervalCount() is the
\* number of periods with a non-zero count.
C13_CountsAgree ==
  /\ \A d \in Delays : getSubscriptionCount(d) = Cardinality(Registered(d))
  /\ \A d \in Delays : buckets[d] = Undefined => getSubscriptionCount(d) = 0
  /\ getActiveIntervalCount = Cardinality({d \in Delays : Registered(d) # {}})

\* two subscriptions at one period, none at the other after its once
\* subscription fired
C13_Witness ==
  /\ ~InCallback
  /\ Len(subs) = 3
  /\ subs[3].once /\ 3 \in invoked
  /\ subs[1].delay = subs[2].delay /\ subs[3].delay # subs[1].delay
  /\ getSubscriptionCount(subs[1].delay) = 2
  /\ getSubscriptionCount(subs[3].delay) = 0
  /\ getActiveIntervalCount = 1

\* C14 (getStats): getStats() has exactly one entry per period of the map,
\* each with subscriptionCount = getSubscriptionCount(period) >= 1; it has
\* getActiveIntervalCount() entries and none when no subscription is live.
C14_Stats ==
  /\ \A d \in Delays : (buckets[d] # Undefined) <=> (\E e \in getStats : e.delay = d)
  /\ \A e, f \in getStats : e.delay = f.delay => e = f
  /\ \A e \in getStats :
       e.subscriptionCount = getSubscriptionCount(e.delay) /\ e.subscriptionCount >= 1
  /\ Cardinality(getStats) = getActiveIntervalCount
  /\ live = {} => getStats = {}

\* both periods have an entry, with counts 2 and 1
C14_Witness ==
  /\ ~InCallback
  /\ \E d, e \in Delays :
       getStats = {[delay |-> d, subscriptionCount |-> 2],
                   [delay |-> e, subscriptionCount |-> 1]}

\* C15 (Periods are separate): a step of a tick of period p (the handler
\* starts, or a callback ends and a once subscription is removed) invokes only
\* subscriptions registered at p and changes no other bucket, no other
\* period's map entry and no interval of another bucket.
TickStep == (\E t \in SubIds : TimerFires(t)) \/ CallbackReturns \/ CallbackThrows

C15_PeriodsSeparate ==
  [][TickStep =>
       LET b == tickLog'.bucket
           p == bucketObjs[b].delay
       IN /\ \A s \in 1..Len(subs) : Invocation(s) => subs[s].delay = p
          /\ \A q \in Delays \ {p} : buckets'[q] = buckets[q]
          /\ \A c \in 1..Len(bucketObjs) : c # b => bucketObjs'[c] = bucketObjs[c]
          /\ \A t \in 1..Len(timers) : timers[t].bucket # b => timers'[t] = timers[t]]_vars

\* a tick of one period invoked its once subscription, which emptied that
\* period; the two subscriptions of the other period were never invoked
C15_Witness ==
  /\ ~InCallback
  /\ lastOp.op = "return"
  /\ tickLog.fired = <<1>> /\ subs[1].once
  /\ invoked = {1}
  /\ buckets[subs[1].delay] = Undefined
  /\ \E q \in Delays : LiveSubs(q) = {2, 3}

\* C16 (Pool instances are independent): a step that is an operation of one
\* pool (run, once, an unsubscribe function, clear(), or a step of a tick of one
\* of its buckets) leaves the other pool's map, every bucket object of the
\* other pool (subscription set, interval handle) and every interval of the
\* other pool's buckets unchanged, also when both pools use the same period.
PoolStep(p) ==
  \/ /\ Len(subs') = Len(subs) + 1
     /\ \E d \in Delays, c \in Callbacks, o \in BOOLEAN : SubscribeOp(p, d, c, o)
  \/ /\ lastOp'.op = "clear"
     /\ ClearIn(p)
  \/ /\ lastOp'.op = "unsubscribe"
     /\ PoolOfSub(lastOp'.sub) = p
     /\ Unsubscribe(lastOp'.sub)
  \/ /\ lastOp'.op \in {"tick", "return", "throw"}
     /\ PoolOfBucket(tickLog'.bucket) = p
     /\ TickStep

MapOf(q) == IF q = 1 THEN buckets ELSE peerBuckets

Owned(q) == {b \in 1..Len(bucketObjs) : PoolOfBucket(b) = q}

C16_PoolsIndependent ==
  [][\A p, q \in Pools :
       (p # q /\ PoolStep(p)) =>
         /\ MapOf(q)' = MapOf(q)
         /\ Owned(q)' = Owned(q)
         /\ \A b \in Owned(q) : bucketObjs'[b] = bucketObjs[b]
         /\ \A t \in 1..Len(timers) :
              timers[t].bucket \in Owned(q) => timers'[t] = timers[t]]_vars

\* the first pool was cleared while both pools had a bucket at one period: its
\* bucket is disposed, the second pool still maps its own bucket with two
\* subscriptions and a live interval
C16_Witness ==
  /\ ~InCallback
  /\ lastOp.op = "clear"
  /\ \E d \in Delays :
       /\ buckets[d] = Undefined
       /\ peerBuckets[d] # Undefined
       /\ SetSize(bucketObjs[peerBuckets[d]].subscriptions) = 2
       /\ \E b \in Owned(1) : bucketObjs[b].delay = d /\ bucketObjs[b].disposed
       /\ \E t \in 1..Len(timers) : timers[t].bucket = peerBuckets[d] /\ timers[t].cancels = 0

\* C17 (No error escapes a tick): the tick handler of a bucket never ends by
\* an exception, whatever the callbacks of the tick do.
C17_NoErrorEscapes == ~(lastOp.op = "tick" /\ lastOp.err)

\* ------------------------------------------------------- iteration claims
\* the session is suspended until its callback is invoked by a tick
WaitsForTick(g) == g.pc = "await" /\ ~g.woken

\* C18 (Pull coalescing): in a started session, while ticks that the session
\* counted are undelivered, an outstanding pull is not waiting for a tick and
\* is resolved by the session's own steps, whether or not the timer fires
\* again; a pull is never resolved ahead of the ticks, and an outstanding pull
\* with no undelivered tick is suspended until the next tick.
C18_State ==
  \A i \in 1..Len(sessions) :
    LET g == sessions[i] IN
    /\ g.resolved <= g.counted
    /\ (g.queue > 0 /\ g.counted > g.resolved) => ~WaitsForTick(g)
    /\ (g.queue > 0 /\ g.counted = g.resolved) => WaitsForTick(g) /\ g.resolve

\* a pull of session i is outstanding while a counted tick is undelivered;
\* only the resolution of a pull ends that (counted and pulls never decrease)
C18_Owed(i) ==
  IF i \in 1..Len(sessions)
  THEN sessions[i].queue > 0 /\ sessions[i].counted > sessions[i].resolved
  ELSE FALSE

C18_PullCoalescing ==
  /\ [](C18_State)
  /\ \A i \in 1..MaxSessions : C18_Owed(i) ~> ~C18_Owed(i)

\* three ticks were counted, three pulls are resolved and the fourth pull is
\* suspended
C18_Witness ==
  /\ Len(sessions) = 1
  /\ sessions[1].counted = 3 /\ sessions[1].resolved = 3
  /\ sessions[1].pulls = 4 /\ sessions[1].queue = 1
  /\ WaitsForTick(sessions[1])

\* C19 (No lost ticks): in every state of a session the pulls resolved do not
\* exceed the ticks counted, ticks counted = pulls resolved + pending (the
\* body's lostTicks, less the tick just delivered while it is suspended at
\* yield), every pull is resolved at most once (pulls = resolved + queued),
\* and the session waits for a tick only when nothing is pending.
C19_NoLostTicks ==
  \A i \in 1..Len(sessions) :
    LET g == sessions[i] IN
    /\ g.resolved <= g.counted
    /\ g.counted + (IF g.pc = "yield" THEN 1 ELSE 0) = g.resolved + g.lostTicks
    /\ g.pulls = g.resolved + g.queue
    /\ WaitsForTick(g) => g.lostTicks = 0

\* one pull was resolved and two more ticks are pending, nobody pulling
C19_Witness ==
  /\ Len(sessions) = 1
  /\ sessions[1].pc = "yield"
  /\ sessions[1].lostTicks = 3
  /\ sessions[1].resolved = 1 /\ sessions[1].pulls = 1

\* C20 as claimed (Ticks before the first pull are counted): when ticks of
\* its period came before the first pull of a session, that pull (made
\* outside any tick) does not wait for a further tick.
C20_EarlyTicksCounted ==
  \A i \in 1..Len(sessions) :
    (~InCallback /\ sessions[i].queue > 0 /\ sessions[i].pulls = 1 /\ sessions[i].early)
      => ~WaitsForTick(sessions[i])

\* C20 as amended (Ticks are counted from the first pull on): before its first
\* pull a session has no subscription and counts nothing, whatever ticks its
\* period has; the first pull registers the subscription and suspends; and
\* once n ticks were counted and n pulls made, n pulls are resolved without a
\* further tick having to occur.
C20_State ==
  \A i \in 1..Len(sessions) :
    LET g == sessions[i] IN
    /\ g.pc = "start" => (g.sub = 0 /\ g.counted = 0 /\ g.lostTicks = 0 /\ g.pulls = 0)
    /\ g.pc # "start" => (g.sub # 0 /\ g.pulls >= 1)
    /\ (g.pulls >= 1 /\ g.counted = 0) => (WaitsForTick(g) /\ g.resolved = 0)
    /\ (g.pulls >= 1 /\ g.counted >= 1 /\ g.resolved = 0) => ~WaitsForTick(g)

C20_Due(i, n) ==
  IF i \in 1..Len(sessions)
  THEN sessions[i].pulls >= n /\ sessions[i].counted >= n
  ELSE FALSE

C20_Done(i, n) == IF i \in 1..Len(sessions) THEN sessions[i].resolved >= n ELSE FALSE

C20_CatchUp(i, n) == C20_Due(i, n) ~> C20_Done(i, n)

C20_CountedFromFirstPull ==
  /\ [](C20_State)
  /\ \A i \in 1..MaxSessions, n \in 1..MaxTicks : C20_CatchUp(i, n)

\* a tick of the period came before the first pull; after the first pull
\* three ticks were counted, three pulls were made and all three are resolved
C20_Witness ==
  /\ Len(sessions) = 1
  /\ sessions[1].early
  /\ sessions[1].counted = 3
  /\ sessions[1].pulls = 3 /\ sessions[1].resolved = 3

\* the subscription objects that carry the callback of session i
SubsOf(i) == {s \in 1..Len(subs) : subs[s].callback = SessionCallback(i)}

\* C21 as claimed (One subscription per session, from the call on): the step
\* in which iterate(p) is called registers exactly one subscription in the
\* bucket of p.
C21_EntryPointRegisters ==
  [][\A d \in IterDelays :
       Iterate(d) => Cardinality(LiveSubs(d)') = Cardinality(LiveSubs(d)) + 1]_vars

\* C21 as amended (One subscription per session, from the first pull on): a
\* generator that was not pulled yet has registered nothing; its first pull
\* registers exactly one recurring subscription in the bucket of its period;
\* the session never registers a second one and keeps the one it has; and
\* that subscription leaves the bucket only by the session's teardown or by
\* clear().
C21_State ==
  \A i \in 1..Len(sessions) :
    LET g == sessions[i] IN
    /\ Cardinality(SubsOf(i)) <= 1
    /\ g.sub = 0 <=> SubsOf(i) = {}
    /\ g.sub = 0 <=> g.pulls = 0
    /\ g.sub # 0 =>
         /\ SubsOf(i) = {g.sub}
         /\ subs[g.sub].delay = g.delay
         /\ ~subs[g.sub].once

C21_Step ==
  \A i \in 1..Len(sessions) :
    LET g == sessions[i]
        h == sessions'[i]
    IN /\ g.sub # 0 => h.sub = g.sub
       /\ (g.pulls = 0 /\ h.pulls = 1) =>
            /\ h.sub = Len(subs) + 1
            /\ Len(subs') = Len(subs) + 1
            /\ \A d \in Delays :
                 LiveSubs(d)' = IF d = g.delay THEN LiveSubs(d) \cup {h.sub} ELSE LiveSubs(d)
       /\ g.pulls >= 1 => Len(subs') = Len(subs) \/ lastOp'.op = "run"
       /\ \A d \in Delays :
            (g.sub \in LiveSubs(d) /\ g.sub \notin LiveSubs(d)') =>
              (lastOp'.op = "clear" \/ (g.pc = "returning" /\ h.pc = "done"))

C21_OneSubscriptionFromFirstPull == [](C21_State) /\ [][C21_Step]_vars

\* a session was pulled twice, counted three ticks next to a recurring
\* subscription and was torn down; it registered one subscription in all
C21_Witness ==
  /\ Len(sessions) = 1
  /\ sessions[1].pc = "done"
  /\ sessions[1].pulls = 2 /\ sessions[1].resolved = 2 /\ sessions[1].counted = 3
  /\ Cardinality(SubsOf(1)) = 1
  /\ sessions[1].sub \notin live
  /\ \E s \in live : ~IsSessionSub(s)

\* C22 (Iteration teardown): once a return() request of the consumer is
\* completed, the session's subscription is in no bucket; the finally block
\* that removes it cancels the period's timer and drops the period from the
\* map when it was the last subscription of the period; and a completed
\* session counts no further tick.
C22_Removed ==
  \A i \in 1..Len(sessions) :
    (sessions[i].pc = "done" /\ sessions[i].sub # 0) =>
      /\ sessions[i].stopped
      /\ sessions[i].sub \notin live
      /\ \A b \in 1..Len(bucketObjs) : ~SetHas(bucketObjs[b].subscriptions, sessions[i].sub)

C22_Step ==
  \A i \in 1..Len(sessions) :
    LET g == sessions[i]
        h == sessions'[i]
        d == g.delay
    IN /\ g.pc = "done" => (h.pc = "done" /\ h.counted = g.counted)
       /\ (g.pc = "returning" /\ h.pc = "done") =>
            /\ ~lastOp'.err
            /\ LiveSubs(d)' = LiveSubs(d) \ {g.sub}
            /\ LiveSubs(d)' = {} => (buckets'[d] = Undefined /\ LiveTimers(d)' = {})
            /\ LiveSubs(d)' # {} => (buckets'[d] = buckets[d] /\ timers' = timers)

C22_Teardown == [](C22_Removed) /\ [][C22_Step]_vars

\* C23 (Independent sessions): two sessions registered at one period are two
\* subscriptions of one bucket with one live timer; a step of one session (a
\* pull, a continuation, return() or its teardown) changes nothing of the
\* other session and leaves the other's subscription where it is; the
\* callback of one session counts the tick for that session only; and a
\* finished tick invoked each session registered before it exactly once.
SessionStep(i) == Pull(i) \/ Resume(i) \/ Return(i) \/ Teardown(i)

Registers(i, d) == sessions[i].sub # 0 /\ sessions[i].sub \in LiveSubs(d)

C23_Shared ==
  \A i, j \in 1..Len(sessions), d \in Delays :
    (i # j /\ Registers(i, d) /\ Registers(j, d)) =>
      /\ sessions[i].sub # sessions[j].sub
      /\ Cardinality(LiveTimers(d)) = 1
      /\ TickDoneOn(d) =>
           (sessions[i].sub <= tickLog.before => FiredCount(sessions[i].sub) = 1)

C23_Step ==
  \A i, j \in 1..Len(sessions) :
    i # j =>
      /\ SessionStep(i) =>
           /\ sessions'[j] = sessions[j]
           /\ \A d \in Delays : Registers(j, d) => Registers(j, d)'
      /\ (IterateCallback /\ tick.cur = sessions[i].sub) =>
           /\ sessions'[i].counted = sessions[i].counted + 1
           /\ sessions'[i].lostTicks = sessions[i].lostTicks + 1
           /\ sessions'[j] = sessions[j]

C23_IndependentSessions == [](C23_Shared) /\ [][C23_Step]_vars

\* C24 (Suspended pulls): a pull made when nothing is pending leaves the
\* session suspended with its resolver stored and resolves nothing; a
\* suspended session is woken by the invocation of its callback and by no
\* other step, once (the resolver is dropped, and the continuation goes on to
\* deliver); and when the period's bucket keeps being ticked, a suspended
\* pull is resolved unless the session's subscription is removed.
Pending(g) == IF g.pc = "yield" THEN g.lostTicks - 1 ELSE g.lostTicks

C24_Step ==
  \A i \in 1..Len(sessions) :
    LET g == sessions[i]
        h == sessions'[i]
    IN /\ (h.pulls = g.pulls + 1 /\ g.pc \in {"start", "yield"} /\ Pending(g) = 0) =>
            (WaitsForTick(h) /\ h.resolve /\ h.resolved = g.resolved)
       /\ (WaitsForTick(g) /\ g.sub # 0 /\ tick.cur = g.sub /\ tick' # tick) =>
            (h.pc = "await" /\ h.woken /\ ~h.resolve /\ h.lostTicks = 1)
       /\ (WaitsForTick(g) /\ ~(g.sub # 0 /\ tick.cur = g.sub)) => WaitsForTick(h)
       /\ (g.pc = "await" /\ g.woken) =>
            (h.pc = "yielding" \/ (h.pc = "await" /\ h.woken /\ ~h.resolve))
       /\ h.resolved \in {g.resolved, g.resolved + 1}

C24_Suspended(i) ==
  IF i \in 1..Len(sessions)
  THEN /\ sessions[i].queue > 0
       /\ WaitsForTick(sessions[i])
       /\ sessions[i].counted < MaxTicks
       /\ Registers(i, sessions[i].delay)
  ELSE FALSE

C24_SuspendedAt(i, n) ==
  IF i \in 1..Len(sessions)
  THEN C24_Suspended(i) /\ sessions[i].resolved = n
  ELSE FALSE

C24_ResolvedPast(i, n) ==
  IF i \in 1..Len(sessions) THEN sessions[i].resolved > n ELSE FALSE

C24_Gone(i) ==
  IF i \in 1..Len(sessions)
  THEN sessions[i].sub # 0 /\ ~Registers(i, sessions[i].delay)
  ELSE FALSE

C24_SuspendedPulls ==
  /\ [][C24_Step]_vars
  /\ \A i \in 1..MaxSessions, n \in 0..(MaxTicks - 1) :
       C24_SuspendedAt(i, n) ~> (C24_ResolvedPast(i, n) \/ C24_Gone(i))

\* the second pull found nothing pending and was suspended; two ticks came
\* before its continuation had its turn, which woke it once
C24_Witness ==
  /\ Len(sessions) = 1
  /\ sessions[1].pc = "await" /\ sessions[1].woken
  /\ sessions[1].pulls = 2 /\ sessions[1].resolved = 1
  /\ sessions[1].queue = 1 /\ sessions[1].lostTicks = 2

\* ------------------------------------------------------------ bucket claims
\* the intervals set for bucket b and not cleared
TimersOf(b) == {t \in 1..Len(timers) : timers[t].bucket = b /\ timers[t].cancels = 0}

\* C25 (dispose): a dispose() call throws nothing; on a bucket that is not
\* disposed it empties the subscription set, leaves no interval of the bucket
\* uncleared (clearing each live one once) and no handle in the bucket, and
\* does not call onEmpty; on a disposed bucket it changes nothing, clears no
\* interval and does not call onEmpty.
C25_Dispose ==
  [][\A b \in 1..Len(bucketObjs) :
       (lastOp'.op = "dispose" /\ BucketDisposeOp(b)) =>
         /\ ~lastOp'.err
         /\ bucketObjs'[b].notified = bucketObjs[b].notified
         /\ IF bucketObjs[b].disposed
            THEN bucketObjs' = bucketObjs /\ timers' = timers
            ELSE /\ bucketObjs'[b].disposed
                 /\ SetSize(bucketObjs'[b].subscriptions) = 0
                 /\ bucketObjs'[b].intervalId = Undefined
                 /\ TimersOf(b)' = {}
                 /\ \A t \in 1..Len(timers) :
                      timers'[t].cancels =
                        IF t \in TimersOf(b) THEN 1 ELSE timers[t].cancels]_vars

\* C26 (Disposed is terminal): a bucket stays disposed, and its set stays
\* empty; every add and every remove on a disposed bucket throws and leaves
\* the bucket as dispose() left it, sets no interval and clears none.
C26_State ==
  \A b \in 1..Len(bucketObjs) :
    bucketObjs[b].disposed => SetSize(bucketObjs[b].subscriptions) = 0

C26_Step ==
  \A b \in 1..Len(bucketObjs) :
    bucketObjs[b].disposed =>
      /\ bucketObjs'[b] = bucketObjs[b]
      /\ \A s \in SubIds :
           (lastOp'.op \in {"add", "remove"} /\ lastOp'.sub = s
              /\ ((\E o \in BOOLEAN, c \in Callbacks : BucketAddOp(b, s, o, c))
                    \/ BucketRemoveOp(b, s))) =>
             (lastOp'.err /\ timers' = timers /\ live' = live)

C27_Remove ==
  [][\A b \in 1..Len(bucketObjs) :
       LET before == SetElems(bucketObjs[b].subscriptions)
           after == SetElems(bucketObjs'[b].subscriptions)
       IN /\ \A s \in 1..Len(subs) :
               (lastOp'.op = "remove" /\ BucketRemoveOp(b, s)
                  /\ ~bucketObjs[b].disposed /\ s \notin before) =>
                 (bucketObjs' = bucketObjs /\ timers' = timers)
          /\ bucketObjs'[b].notified =
               IF before # {} /\ after = {} /\ lastOp'.op # "dispose"
               THEN bucketObjs[b].notified + 1
               ELSE bucketObjs[b].notified]_vars

\* C28 (Reentrant mutation during a tick): a tick invokes no subscription
\* twice, and it invokes only subscriptions that are registered at that
\* moment, so one that a callback of the same tick has unsubscribed before its
\* turn is passed over.
C28_AtMostOnce == \A s \in 1..Len(subs) : FiredCount(s) <= 1

C28_RemovedNotInvoked ==
  \A s \in 1..Len(subs) :
    Invocation(s) =>
      /\ s \in live
      /\ InCallback => (FiredCount(s) = 0 /\ subs[s].delay = subs[tick.cur].delay)

C29_AddStep ==
  \A d \in Delays :
    (lastOp'.op \in {"run", "once"} /\ Len(subs') = Len(subs) + 1
       /\ subs'[Len(subs')].delay = d /\ buckets[d] # Undefined) =>
      (timers' = timers /\ buckets'[d] = buckets[d] /\ ~lastOp'.err)

C29_OnceNextTick ==
  \A s \in 1..Len(subs) :
    (subs[s].once /\ TickDoneOn(subs[s].delay) /\ s <= tickLog.before) =>
      (s \notin LiveSubs(subs[s].delay) /\ s \notin live)

C29_NoRestart == [](C29_OnceNextTick) /\ [][C29_AddStep]_vars

\* C30 (Every tick terminates): the callbacks that one invocation of the tick
\* handler invokes are bounded when the handler starts: while callbacks
\* return, a tick invokes only subscriptions that were registered before it
\* began, so callbacks that register at the tick's period cannot prolong it.
C30_TickBounded ==
  tickLog.threw = {} =>
    \A k \in 1..Len(tickLog.fired) : tickLog.fired[k] <= tickLog.before

\* C31 (Registration inside a tick): a subscription that a callback registers
\* (run or once) at the period of the running tick is not invoked by that
\* tick: a tick invokes only subscriptions registered before it began, and the
\* first tick of the period that begins after the registration invokes it.
C31_NotInThisTick ==
  \A s \in 1..Len(subs) : Invocation(s) => s <= tickLog'.before

C31_InFollowingTick ==
  \A s \in 1..Len(subs) :
    (TickDoneOn(subs[s].delay) /\ s <= tickLog.before /\ s \in LiveSubs(subs[s].delay)) =>
      FiredCount(s) >= 1

C31_RegisteredInTick == [](C31_InFollowingTick) /\ [][C31_NotInThisTick]_vars

\* C32 (No routing to a disposed bucket): in every state, also inside the
\* callbacks of a running tick, the bucket mapped at a period is not disposed,
\* and no run, once, unsubscribe or clear call of the pool ends with the
\* exception that add and remove throw on a disposed bucket.
C32_MappedNotDisposed ==
  \A d \in Delays : buckets[d] # Undefined => ~bucketObjs[buckets[d]].disposed

C32_PoolCallsSucceed ==
  lastOp.op \in {"run", "once", "unsubscribe", "clear"} => ~lastOp.err

C32_NoRouteToDisposed == C32_MappedNotDisposed /\ C32_PoolCallsSucceed

\* inside a tick of a bucket that the running callback has emptied (so it is
\* disposed), the callback has registered at the same period again: the call
\* was routed to a new bucket
C32_Witness ==
  /\ InCallback
  /\ bucketObjs[tick.bucket].disposed
  /\ lastOp.op = "run" /\ ~lastOp.err
  /\ subs[lastOp.sub].delay = bucketObjs[tick.bucket].delay
  /\ buckets[subs[lastOp.sub].delay] \notin {Undefined, tick.bucket}

\* C33 (Timer conservation): in every state of a pool the intervals that were
\* set and not cleared are as many as the periods mapped to a bucket, each of
\* them is the interval of a mapped bucket, and no interval is cleared twice.
C33_LiveTimers == {t \in 1..Len(timers) : timers[t].cancels = 0}

C33_TimerConservation ==
  /\ Cardinality(C33_LiveTimers) = getActiveIntervalCount
  /\ \A t \in C33_LiveTimers : buckets[bucketObjs[timers[t].bucket].delay] = timers[t].bucket
  /\ \A t \in 1..Len(timers) : timers[t].cancels <= 1

\* C34 (Any handle value): whatever handle the capability returns, the handle
\* 0 included, a bucket never has two intervals set at once (adds to a bucket
\* whose interval is set do not set another one), and a bucket that is empty
\* or disposed has none (emptying and disposing clear the interval that was
\* set).
C34_AnyHandleValue ==
  \A b \in 1..Len(bucketObjs) :
    /\ Cardinality(TimersOf(b)) <= 1
    /\ (bucketObjs[b].disposed \/ SetSize(bucketObjs[b].subscriptions) = 0) =>
         TimersOf(b) = {}

\* C35 (clear detaches sessions): clear() leaves every generator object as it
\* is (it ends none), and from then on a session whose subscription clear()
\* dropped is reached by no tick: its callback is not invoked, its pending
\* count does not grow, and a pull that waits for a tick keeps waiting and is
\* not completed, also when the period is registered at again afterwards.
Detached(i) ==
  /\ sessions[i].sub # 0
  /\ sessions[i].sub \notin live
  /\ sessions[i].pc # "done"

C35_ClearStep == lastOp'.op = "clear" /\ lastOp' # lastOp => sessions' = sessions

C35_DetachedStep ==
  \A i \in 1..Len(sessions) :
    Detached(i) =>
      /\ sessions'[i].counted = sessions[i].counted
      /\ sessions'[i].lostTicks <= sessions[i].lostTicks
      /\ WaitsForTick(sessions[i]) =>
           (WaitsForTick(sessions'[i]) /\ sessions'[i].resolved = sessions[i].resolved)

C35_ClearDetaches == [][C35_ClearStep /\ C35_DetachedStep]_vars

\* a pull waits for a tick, clear() has dropped the session's subscription, a
\* subscription registered at the session's period after that has been
\* invoked by a tick, and the pull still waits
C35_Witness ==
  /\ ~InCallback
  /\ Len(sessions) >= 1
  /\ Detached(1)
  /\ WaitsForTick(sessions[1])
  /\ \E s \in live :
       s > sessions[1].sub /\ subs[s].delay = sessions[1].delay /\ s \in invoked

\* C36 (Explicit termination while waiting): when return() is called on a
\* session whose pull waits with no tick pending, the session's subscription
\* is removed without a further tick: the microtasks that are due suffice.
C36_ReturnedWaiting(i) ==
  IF i \in 1..Len(sessions)
  THEN /\ sessions[i].ret
       /\ WaitsForTick(sessions[i])
       /\ sessions[i].lostTicks = 0
       /\ sessions[i].sub \in live
  ELSE FALSE

C36_Removed(i) ==
  IF i \in 1..Len(sessions) THEN sessions[i].sub \notin live ELSE FALSE

C36_ReturnWhileWaiting ==
  \A i \in 1..MaxSessions : C36_ReturnedWaiting(i) ~> C36_Removed(i)

\* C37 (onStop of the bucket of src/src/bucket.ts): every step that empties a
\* bucket whose interval is set (delete of the last subscription, the removal
\* of the last once subscription after its callback, dispose) clears the
\* interval, onStop is called once in exactly the steps in which the bucket
\* goes from an interval set to none, and in no step that leaves
\* subscriptions in the set.
C37_Step ==
  \A b \in 1..Len(bucketObjs) :
    /\ (TimersOf(b) # {} /\ SetSize(bucketObjs'[b].subscriptions) = 0) => TimersOf(b)' = {}
    /\ bucketObjs'[b].notified =
         IF TimersOf(b) # {} /\ TimersOf(b)' = {}
         THEN bucketObjs[b].notified + 1
         ELSE bucketObjs[b].notified
    /\ SetSize(bucketObjs'[b].subscriptions) > 0 =>
         bucketObjs'[b].notified = bucketObjs[b].notified

C37_OnStopOncePerRelease == [][C37_Step]_vars

\* C38 (Restartable bucket): the set and clear calls of one bucket alternate,
\* beginning with set (when an interval is set for a bucket, every earlier
\* interval of that bucket has been cleared, and none is cleared twice), and
\* an add to a bucket that is not disposed and has no interval set, as after
\* its set had emptied, sets exactly one.
C38_Alternate ==
  \A t \in 1..Len(timers) :
    /\ timers[t].cancels <= 1
    /\ \A u \in 1..Len(timers) :
         (u < t /\ timers[u].bucket = timers[t].bucket) => timers[u].cancels = 1

C38_AddStep ==
  \A b \in 1..Len(bucketObjs) :
    (lastOp'.op = "add" /\ lastOp' # lastOp /\ ~lastOp'.err /\ TimersOf(b) = {}) =>
      /\ Len(timers') = Len(timers) + 1
      /\ timers'[Len(timers')].bucket = b
      /\ timers'[Len(timers')].cancels = 0

C38_Restartable == [](C38_Alternate) /\ [][C38_AddStep]_vars

\* C39 (Session state): the pending count of a session is never negative (at
\* `yield`, where one tick is being delivered, lostTicks is at least 1); a
\* resolver is stored only while the body waits with lostTicks = 0, and it is
\* installed only by the body entering that wait; a tick that finds a resolver
\* calls it and empties the slot, and only such a tick wakes the body, so a
\* promise is resolved at most once.
C39_State ==
  \A i \in 1..Len(sessions) :
    LET g == sessions[i] IN
    /\ g.lostTicks >= 0
    /\ g.pc \in {"yield", "yielding", "returning"} => g.lostTicks >= 1
    /\ g.resolve => (g.pc = "await" /\ ~g.woken /\ g.lostTicks = 0)
    /\ g.woken => (g.pc = "await" /\ ~g.resolve /\ g.lostTicks >= 1)

C39_Step ==
  \A i \in 1..Len(sessions) :
    LET g == sessions[i]
        h == sessions'[i]
    IN /\ h.counted = g.counted + 1 =>
            (h.lostTicks = g.lostTicks + 1 /\ ~h.resolve /\ h.woken = (g.woken \/ g.resolve))
       /\ (h.resolve /\ ~g.resolve) => (h.pc = "await" /\ h.lostTicks = 0 /\ g.pc # "await")
       /\ (h.woken /\ ~g.woken) => (g.resolve /\ h.counted = g.counted + 1)
       /\ (g.resolve /\ ~h.resolve) => h.counted = g.counted + 1

C39_SessionInvariant == [](C39_State) /\ [][C39_Step]_vars

\* the second wait of a session: after one delivered tick the body waited
\* again, and a tick has found the resolver, called it and emptied the slot
C39_Witness ==
  /\ Len(sessions) >= 1
  /\ sessions[1].pc = "await"
  /\ sessions[1].woken
  /\ ~sessions[1].resolve
  /\ sessions[1].resolved = 1
  /\ sessions[1].counted = 2
  /\ sessions[1].lostTicks = 1

====
